---------------------------- MODULE Spec2Model ----------------------------
(***************************************************************************)
(* Model of batch_transfer_airdrop.py: main() as a sequential state        *)
(* machine.  Every call into the ledger client (web3), every operator      *)
(* prompt and every audit-log write is one step; the outcome of a call     *)
(* (value returned or exception raised) is chosen nondeterministically.    *)
(*                                                                         *)
(* Representation notes                                                    *)
(*  - Python None is the empty tuple, a present value v is <<v>>.          *)
(*  - A CSV field written as `x or ""` is << >> when x is None or falsy,   *)
(*    <<x>> otherwise.                                                     *)
(*  - Raw token quantities exceed machine integers (amount * 10^18): an    *)
(*    amount in token units is [mant, exp] = mant * 10^exp, a balance read *)
(*    from the chain is [hi, lo] = hi * 10^18 + lo with lo < 10^18.        *)
(*  - The timestamp column of the audit row (wall clock) is left out.      *)
(*  - Locals that Python keeps but always reassigns before reading         *)
(*    (fee_fields, gas_limit, tx) are cleared once the attempt's row is    *)
(*    written, after their last read, and when an iteration starts.        *)
(***************************************************************************)
EXTENDS Integers, Sequences, FiniteSets, TLC

\* ------------------------------------------------------------ bounds ----
MaxRecipients == 1      \* longest recipient list explored exhaustively
MaxCount == 2           \* largest pending transaction count the node reports
MaxBalance == 4         \* largest token balance (whole tokens) the node reports
MaxSkip == 1            \* largest SKIP_FIRST_N configured
MaxRuns == 2            \* runs of the script over the same LOG_FILE

\* ------------------------------------------------- program constants ----
EXPECTED_DECIMALS == 18
FALLBACK_GAS == 120000
PRIORITY_WEI == 1500000000          \* w3.to_wei(Decimal("1.5"), "gwei")
MULT_NUM == 20                      \* MAX_FEE_MULTIPLIER = Decimal("2.0") = 20/10
MULT_DEN == 10

None == << >>
Some(v) == <<v>>
\* an integer local of main() that has not been assigned yet
Unbound == 0 - 1

\* what a call into the ledger client can do: raise, or return a value of S
Replies(S) == {<<"raise", "Exception">>} \cup {<<"ok", v>> : v \in S}
Raised(reply) == reply[1] = "raise"

\* `x or ""` as csv.writer receives it; falsy is the falsy value of x's type
OrEmpty(opt, falsy) == IF opt = None THEN << >> ELSE IF opt[1] = falsy THEN << >> ELSE opt

Entries == {<<"A", 1>>, <<"B", 2>>}     \* parsed (address, amount) pairs, amount > 0

RECURSIVE SeqsUpTo(_, _)
SeqsUpTo(S, n) == IF n = 0 THEN {<< >>}
                  ELSE LET shorter == SeqsUpTo(S, n - 1)
                       IN  shorter \cup {Append(s, e) : s \in {t \in shorter : Len(t) = n - 1}, e \in S}

\* the shipped two-line list shape and a three-transfer batch, always explored
ScenarioLists == { << <<"A", 1>>, <<"B", 2>> >>, << <<"A", 1>>, <<"B", 2>>, <<"A", 1>> >> }

RECURSIVE SumAmounts(_)
SumAmounts(rs) == IF rs = << >> THEN 0 ELSE rs[1][2] + SumAmounts(Tail(rs))

\* PRIVATE_KEY as configured: empty, containing the documented marker
\* YOUR_PRIVATE_KEY_HERE, the shipped placeholder "0xPrivateKey" (not valid
\* hex), or a usable key.
KeyKinds == {"empty", "marker", "shipped_placeholder", "valid"}
\* RPC_URL: empty, containing the marker YOUR_RPC_ENDPOINT, or a URL.
UrlKinds == {"empty", "marker", "url"}

\* what the operator may type at the LIVE MODE prompt, as chunks
Answers == { <<"SEND">>, <<" ", "SEND", " ">>, <<"send">>, << >> }

RECURSIVE LStrip(_)
LStrip(s) == IF s # << >> /\ s[1] = " " THEN LStrip(Tail(s)) ELSE s
RECURSIVE RStrip(_)
RStrip(s) == IF s # << >> /\ s[Len(s)] = " " THEN RStrip(SubSeq(s, 1, Len(s) - 1)) ELSE s
Strip(s) == RStrip(LStrip(s))

DecimalsReplies == {18, 6}
Balances == { [hi |-> h, lo |-> 0] : h \in 0..MaxBalance } \cup { [hi |-> 0, lo |-> 1] }

token_units(amount_no_decimals, d) == [mant |-> amount_no_decimals, exp |-> d]

\* token_balance < required_units, for required_units = mant * 10^18
BalanceBelow(bal, units) == bal.hi < units.mant

HEADER == <<"timestamp", "transfer_num", "to_address", "amount_human",
            "amount_raw", "tx_hash", "status", "block_number", "gas_used", "error">>

\* LOG_FILE is a sequence of records, each tagged as the header line or a data
\* row; a path at which no file exists is the one-record value NoFile
Hdr == <<"header", HEADER>>
Row(r) == <<"row", r>>
NoFile == << <<"absent", << >> >> >>

VARIABLES
    DRY_RUN, SKIP_FIRST_N, PRIVATE_KEY, RPC_URL, all_recipients,   \* configuration
    rpcUp,          \* environment: whether the RPC endpoint answers is_connected()
    pc,             \* position in main()
    result,         \* "running", "return 0", "return 1" or "exception" (uncaught)
    recipients, decimals, token_balance, nonce, succeeded, failed, skipped,
    i,              \* loop index (enumerate start=1); 0 before the loop
    status, sent_tx_hash, receipt, error_msg, fee_fields, gas_limit, tx,
    logFile,        \* content of LOG_FILE: NoFile or the sequence of records
    baseLen,        \* records in LOG_FILE once AuditLogger.__enter__ returned
    calls,          \* ledger-client operations invoked so far in this run
    broadcasts,     \* transactions accepted by send_raw_transaction, in order
    confirmations,  \* times the operator pressed Enter at the checkpoint
    attemptNonce,   \* nonce shown at the start of each attempt (line 288)
    nonceUpdate,    \* per finished attempt: <<"inc">> or <<"query", value returned>>
    flushed,        \* records of logFile that reached the disk (the rest is buffered)
    typed,          \* what the operator typed at the LIVE MODE prompt, None if not asked
    decoded,        \* outcome of the Transfer event decode: "none", "ok" or "failed"
    run,            \* number of the current run of the script over the same LOG_FILE
    MAX_PRIORITY_FEE_GWEI, MAX_FEE_MULTIPLIER,   \* fee configuration (multiplier in tenths)
    chain,          \* the node's view: base fee of the latest block, suggested gas price
    feePc,          \* position in a pick_fees invocation made on its own
    first_block,    \* the block is_eip1559 read in that invocation, None before
    fresh,          \* every view of the chain that was current during that invocation
    feeOut          \* what that invocation returned, None before

feevars == <<MAX_PRIORITY_FEE_GWEI, MAX_FEE_MULTIPLIER, chain, feePc, first_block, fresh, feeOut>>
cfgvars == <<DRY_RUN, SKIP_FIRST_N, PRIVATE_KEY, RPC_URL, all_recipients, rpcUp, run, feevars>>
attemptvars == <<status, sent_tx_hash, receipt, error_msg, fee_fields, gas_limit, tx>>
countvars == <<succeeded, failed, skipped>>
tracevars == <<broadcasts, confirmations, attemptNonce, nonceUpdate>>
latevars == <<flushed, typed, decoded>>
vars == <<DRY_RUN, SKIP_FIRST_N, PRIVATE_KEY, RPC_URL, all_recipients, rpcUp, pc, result,
          recipients, decimals, token_balance, nonce, succeeded, failed, skipped, i,
          status, sent_tx_hash, receipt, error_msg, fee_fields, gas_limit, tx,
          logFile, baseLen, calls, broadcasts, confirmations, attemptNonce, nonceUpdate,
          flushed, typed, decoded, run, feevars>>

OldRow == [transfer_num |-> 1, to_address |-> "A", amount_human |-> 1,
           amount_raw |-> token_units(1, EXPECTED_DECIMALS), tx_hash |-> << >>,
           status |-> "DRY_RUN", block_number |-> << >>, gas_used |-> << >>, error |-> << >>]

\* the fee configuration as shipped (lines 45-46); no pick_fees invocation of
\* its own is under way
ShippedFees ==
    /\ MAX_PRIORITY_FEE_GWEI = None
    /\ MAX_FEE_MULTIPLIER = MULT_NUM
    /\ chain = [base |-> None, price |-> 5]
    /\ feePc = "off" /\ first_block = None /\ fresh = {} /\ feeOut = None

\* main() not entered yet: no local assigned, nothing recorded for the run
NotStarted ==
    /\ recipients = << >>
    /\ decimals = Unbound
    /\ token_balance = None
    /\ nonce = Unbound
    /\ succeeded = 0 /\ failed = 0 /\ skipped = 0
    /\ i = 0
    /\ status = "PENDING" /\ sent_tx_hash = None /\ receipt = None /\ error_msg = None
    /\ fee_fields = None /\ gas_limit = None /\ tx = None
    /\ baseLen = 0
    /\ typed = None
    /\ decoded = "none"
    /\ calls = {}
    /\ broadcasts = << >>
    /\ confirmations = 0
    /\ attemptNonce = << >>
    /\ nonceUpdate = << >>

Init ==
    /\ DRY_RUN \in BOOLEAN
    /\ SKIP_FIRST_N \in 0..MaxSkip
    /\ PRIVATE_KEY \in KeyKinds
    /\ RPC_URL \in UrlKinds
    /\ all_recipients \in SeqsUpTo(Entries, MaxRecipients) \cup ScenarioLists
    /\ rpcUp \in BOOLEAN
    /\ ShippedFees
    /\ pc = "start"
    /\ result = "running"
    /\ NotStarted
    /\ logFile \in {NoFile, <<Hdr, Row(OldRow)>>}
    /\ flushed = (IF logFile = NoFile THEN 0 ELSE Len(logFile))
    /\ run = 1

\* `return 1` from main()
Return1 == /\ pc' = "exit"
           /\ result' = "return 1"

\* an exception nobody catches leaves main()
Uncaught == /\ pc' = "exit"
            /\ result' = "exception"

\* lines 180-185: the two configuration guards
CheckConfig ==
    /\ pc = "start"
    /\ IF RPC_URL \in {"empty", "marker"} \/ PRIVATE_KEY \in {"empty", "marker"}
       THEN Return1
       ELSE pc' = "connect" /\ result' = result
    /\ UNCHANGED <<latevars, cfgvars, recipients, decimals, token_balance, nonce, countvars, i, attemptvars,
                   logFile, baseLen, calls, tracevars>>

\* lines 187-195: is_connected(), then account.from_key(PRIVATE_KEY)
Connect ==
    /\ pc = "connect"
    /\ calls' = calls \cup {"is_connected"}
    /\ IF ~rpcUp THEN Return1
       ELSE IF PRIVATE_KEY # "valid" THEN Uncaught
       ELSE pc' = "metadata" /\ result' = result
    /\ UNCHANGED <<latevars, cfgvars, recipients, decimals, token_balance, nonce, countvars, i, attemptvars,
                   logFile, baseLen, tracevars>>

\* the skip announced but the whole list processed
ResumeWhole(all, k) == all

\* lines 221-225: all_recipients[SKIP_FIRST_N:] when resuming
ResumeFrom(all, k) == IF k > 0 THEN SubSeq(all, k + 1, Len(all)) ELSE all

\* the decimals guard missing
DecimalsAny(d) == TRUE

\* line 213, negated: the token reports the decimals the script was written for
DecimalsAccepted(d) == d = EXPECTED_DECIMALS

\* lines 197-229: name/symbol (failures swallowed), decimals, parse, skip
ReadDecimals ==
    /\ pc = "metadata"
    /\ calls' = calls \cup {"decimals"}
    /\ \E reply \in Replies(DecimalsReplies) :
         IF Raised(reply) THEN Return1 /\ UNCHANGED <<decimals, recipients>>
         ELSE IF ~DecimalsAccepted(reply[2])
         THEN Return1 /\ decimals' = reply[2] /\ UNCHANGED recipients
         ELSE /\ decimals' = reply[2]
              /\ recipients' = ResumeFrom(all_recipients, SKIP_FIRST_N)
              /\ pc' = "balance" /\ result' = result
    /\ UNCHANGED <<latevars, cfgvars, token_balance, nonce, countvars, i, attemptvars, logFile, baseLen, tracevars>>

\* line 257: sum(token_units(a, decimals) for _, a in recipients)
required_units == token_units(SumAmounts(recipients), decimals)

\* lines 231-261: chain id, block number, balances, the balance guard
CheckBalance ==
    /\ pc = "balance"
    /\ calls' = calls \cup {"chain_id", "balanceOf"}
    /\ \E reply \in Replies(Balances) :
         IF Raised(reply) THEN Uncaught /\ UNCHANGED token_balance
         ELSE /\ token_balance' = Some(reply[2])
              /\ IF BalanceBelow(reply[2], required_units) THEN Return1
                 ELSE pc' = (IF DRY_RUN THEN "read_nonce" ELSE "prompt") /\ result' = result
    /\ UNCHANGED <<latevars, cfgvars, recipients, decimals, nonce, countvars, i, attemptvars,
                   logFile, baseLen, tracevars>>

\* the prompt taking any answer for a confirmation
ConfirmedAlways(answer) == TRUE

\* lines 265-266, negated: input(...).strip() is the word SEND
Confirmed(answer) == Strip(answer) = <<"SEND">>

\* lines 263-268: the start-of-run prompt (live mode only)
ConfirmSend ==
    /\ pc = "prompt"
    /\ \E answer \in Answers :
         /\ typed' = Some(answer)
         /\ IF ~Confirmed(answer) THEN Return1
            ELSE pc' = "read_nonce" /\ result' = result
    /\ UNCHANGED <<flushed, decoded, cfgvars, recipients, decimals, token_balance, nonce, countvars, i, attemptvars,
                   logFile, baseLen, calls, tracevars>>

\* lines 270-277: starting nonce from the pending transaction count
ReadStartNonce ==
    /\ pc = "read_nonce"
    /\ calls' = calls \cup {"get_transaction_count"}
    /\ \E reply \in Replies(0..MaxCount) :
         IF Raised(reply) THEN Uncaught /\ UNCHANGED nonce
         ELSE nonce' = reply[2] /\ pc' = "open" /\ result' = result
    /\ UNCHANGED <<latevars, cfgvars, recipients, decimals, token_balance, countvars, i, attemptvars,
                   logFile, baseLen, tracevars>>

\* lines 92-101: AuditLogger.__enter__, append mode, header only for a new file
AuditEnter ==
    /\ pc = "open"
    /\ logFile' = IF logFile = NoFile THEN <<Hdr>> ELSE logFile
    /\ baseLen' = Len(logFile')
    /\ pc' = "loop"
    /\ UNCHANGED <<latevars, cfgvars, result, recipients, decimals, token_balance, nonce, countvars, i, attemptvars,
                   calls, tracevars>>

\* ----------------------------------------------------- ledger replies ----
NoBaseFee == None
Blocks == {NoBaseFee, Some(10)}      \* baseFeePerGas of the latest block
GasPrices == {5}                              \* w3.eth.gas_price
GasEstimates == {52000, 60000}                \* estimate_gas results
Receipts == { [status |-> st, blockNumber |-> 7, gasUsed |-> 51000] : st \in {0, 1} }

\* line 160: "baseFeePerGas" in latest and latest["baseFeePerGas"] is not None
is_eip1559(latest) == latest # NoBaseFee

\* lines 168-171: w3.to_wei(..., "gwei") of the default or the configured value
Priority == IF MAX_PRIORITY_FEE_GWEI = None THEN PRIORITY_WEI
            ELSE MAX_PRIORITY_FEE_GWEI[1] * 1000000000

\* the multiplier left out of maxFeePerGas
pick_fees_unscaled(block1, block2, gas_price) ==
    IF block1 # None
    THEN IF block2 = None THEN <<"raise", "Exception">>
         ELSE <<"ok", [type |-> 2, maxFeePerGas |-> block2[1] + Priority,
                       maxPriorityFeePerGas |-> Priority]>>
    ELSE <<"ok", [gasPrice |-> gas_price]>>

\* lines 163-176; block1 is read by is_eip1559, block2 by pick_fees itself.
\* The result is <<"ok", dict>> or <<"raise", kind>>: int(None) raises TypeError
\* when the second read has no base fee.
pick_fees(block1, block2, gas_price) ==
    IF is_eip1559(block1)
    THEN IF block2 = NoBaseFee THEN <<"raise", "Exception">>
         ELSE LET base == block2[1]
                  priority == Priority
                  max_fee == ((base * MAX_FEE_MULTIPLIER) \div MULT_DEN) + priority
              IN  <<"ok", [type |-> 2, maxFeePerGas |-> max_fee, maxPriorityFeePerGas |-> priority]>>
    ELSE <<"ok", [gasPrice |-> gas_price]>>

\* line 311: int(est_gas * 1.15) in binary floating point, for the estimates
\* of GasEstimates: 52000 * 1.15 is 59799.99999999999 as a double, which int()
\* truncates to 59799; 60000 * 1.15 is 69000.0
BufferedGas(est_gas) == IF est_gas = 52000 THEN 59799 ELSE (est_gas * 115) \div 100

\* the estimate used as the gas limit without the buffer
GasLimitUnbuffered(reply) == IF Raised(reply) THEN FALLBACK_GAS ELSE reply[2]

\* lines 309-314: the buffered estimate, or the fallback when estimate_gas raised
GasLimitFor(reply) == IF Raised(reply) THEN FALLBACK_GAS ELSE BufferedGas(reply[2])

\* tx_hash.hex(): determined by the signed transaction
HashOf(t) == <<"0x", t.nonce, t.to, t.value.mant>>

\* what the node accepted: which transfer, under which nonce, to whom, how much
Sent(num, t) == [transfer_num |-> num, nonce |-> t.nonce, to |-> t.to, value |-> t.value]

\* str(e) for the exceptions the handlers at lines 377-386 bind
StrOf(exc) == IF exc = "ContractLogicError" THEN "execution reverted" ELSE "boom"

AuditRow(num, to_addr, amt_human, amt_raw, hash, st, block, gas_used, error) ==
    [transfer_num |-> num, to_address |-> to_addr, amount_human |-> amt_human,
     amount_raw |-> amt_raw, tx_hash |-> OrEmpty(hash, ""), status |-> st,
     block_number |-> OrEmpty(block, 0), gas_used |-> OrEmpty(gas_used, 0),
     error |-> OrEmpty(error, "")]

\* the flush after writerow missing: nothing more reaches the disk
NoFlush(file) == flushed

\* line 122: self.file.flush(); lines 103-105: close() flushes as well
Flush(file) == Len(file)

\* the row written a second time
audit_log_twice(file, row) == Append(Append(file, Row(row)), Row(row))

\* lines 107-122: AuditLogger.log, writerow then flush
audit_log(file, row) == Append(file, Row(row))

total == Len(recipients)
actual_num == i + SKIP_FIRST_N
remaining_after == total - i
to_addr == recipients[i][1]
amt_human == recipients[i][2]
amt_units == token_units(amt_human, decimals)

\* the generic handler forgetting its assignment: status stays as initialised
StatusForUnassigned(exc) == CASE exc = "TimeExhausted" -> "TIMEOUT"
                              [] exc = "ContractLogicError" -> "CONTRACT_ERROR"
                              [] OTHER -> "PENDING"

\* lines 373, 378, 383: the status each except clause assigns
StatusFor(exc) == CASE exc = "TimeExhausted" -> "TIMEOUT"
                    [] exc = "ContractLogicError" -> "CONTRACT_ERROR"
                    [] OTHER -> "ERROR"

\* the except clauses recording the status without counting the failure
HandleUncounted(exc) ==
    /\ status' = StatusFor(exc)
    /\ error_msg' = (IF exc = "TimeExhausted"
                     THEN Some("Receipt timeout - tx may still be pending")
                     ELSE Some(StrOf(exc)))
    /\ failed' = failed
    /\ pc' = "log"

\* lines 372-386: the except clauses of the attempt's try block
Handle(exc) ==
    /\ status' = StatusFor(exc)
    /\ error_msg' = (IF exc = "TimeExhausted"
                     THEN Some("Receipt timeout - tx may still be pending")
                     ELSE Some(StrOf(exc)))
    /\ failed' = failed + 1
    /\ pc' = "log"

\* the per-transfer dry-run test missing
IsDryRunIgnored == FALSE

\* line 296: if DRY_RUN
IsDryRun == DRY_RUN

\* lines 280-303 with DRY_RUN set: the whole iteration
DryRunAttempt ==
    /\ pc = "loop" /\ IsDryRun /\ i < total
    /\ i' = i + 1
    /\ LET num == i' + SKIP_FIRST_N
           to == recipients[i'][1]
           amt == recipients[i'][2]
       IN  /\ status' = "DRY_RUN"
           /\ logFile' = audit_log(logFile, AuditRow(num, to, amt, token_units(amt, decimals),
                                                     None, status', None, None, None))
    /\ sent_tx_hash' = None /\ receipt' = None /\ error_msg' = None
    /\ fee_fields' = None /\ gas_limit' = None /\ tx' = None
    /\ flushed' = Flush(logFile')
    /\ decoded' = "none"
    /\ skipped' = skipped + 1
    /\ nonce' = nonce + 1
    /\ attemptNonce' = Append(attemptNonce, nonce)
    /\ nonceUpdate' = Append(nonceUpdate, <<"inc">>)
    /\ pc' = "loop"
    /\ UNCHANGED <<typed, cfgvars, result, recipients, decimals, token_balance, succeeded, failed, baseLen,
                   calls, broadcasts, confirmations>>

\* lines 280-294 with DRY_RUN clear: per-transfer state initialised
LiveBegin ==
    /\ pc = "loop" /\ ~IsDryRun /\ i < total
    /\ i' = i + 1
    /\ status' = "PENDING" /\ sent_tx_hash' = None /\ receipt' = None /\ error_msg' = None
    /\ fee_fields' = None /\ gas_limit' = None /\ tx' = None
    /\ decoded' = "none"
    /\ attemptNonce' = Append(attemptNonce, nonce)
    /\ pc' = "fees"
    /\ UNCHANGED <<flushed, typed, cfgvars, result, recipients, decimals, token_balance, nonce, countvars, logFile, baseLen,
                   calls, broadcasts, confirmations, nonceUpdate>>

\* line 306: fee_fields = pick_fees(w3)
PickFees ==
    /\ pc = "fees"
    /\ calls' = calls \cup {"pick_fees"}
    /\ \E outcome \in {<<"raise", "Exception">>, <<"raise", "ContractLogicError">>}
                      \cup {pick_fees(b1, b2, g) : b1 \in Blocks, b2 \in Blocks, g \in GasPrices} :
         IF Raised(outcome)
         THEN Handle(outcome[2]) /\ UNCHANGED fee_fields
         ELSE /\ fee_fields' = Some(outcome[2])
              /\ pc' = "gas"
              /\ UNCHANGED <<status, error_msg, failed>>
    /\ UNCHANGED <<latevars, cfgvars, result, recipients, decimals, token_balance, nonce, succeeded, skipped, i,
                   sent_tx_hash, receipt, gas_limit, tx, logFile, baseLen, tracevars>>

\* lines 308-314: estimate with buffer, any failure falls back
EstimateGas ==
    /\ pc = "gas"
    /\ calls' = calls \cup {"estimate_gas"}
    /\ \E reply \in Replies(GasEstimates) \cup {<<"raise", "ContractLogicError">>} :
         gas_limit' = Some(GasLimitFor(reply))
    /\ pc' = "build"
    /\ UNCHANGED <<latevars, cfgvars, result, recipients, decimals, token_balance, nonce, countvars, i,
                   status, sent_tx_hash, receipt, error_msg, fee_fields, tx,
                   logFile, baseLen, tracevars>>

\* lines 316-332: build_transaction
BuildTx ==
    /\ pc = "build"
    /\ calls' = calls \cup {"build_transaction"}
    /\ \E outcome \in {<<"ok", "tx">>, <<"raise", "Exception">>, <<"raise", "ContractLogicError">>} :
         IF Raised(outcome)
         THEN Handle(outcome[2]) /\ UNCHANGED tx
         ELSE /\ tx' = Some([to |-> to_addr, value |-> amt_units, nonce |-> nonce,
                             gas |-> gas_limit[1]] @@ fee_fields[1])
              /\ pc' = "sign"
              /\ UNCHANGED <<status, error_msg, failed>>
    /\ UNCHANGED <<latevars, cfgvars, result, recipients, decimals, token_balance, nonce, succeeded, skipped, i,
                   sent_tx_hash, receipt, fee_fields, gas_limit, logFile, baseLen, tracevars>>

\* lines 334-337: sign_transaction
SignTx ==
    /\ pc = "sign"
    /\ calls' = calls \cup {"sign_transaction"}
    /\ \E outcome \in {<<"ok", "signed">>, <<"raise", "Exception">>} :
         IF Raised(outcome)
         THEN Handle(outcome[2])
         ELSE pc' = "send" /\ UNCHANGED <<status, error_msg, failed>>
    /\ UNCHANGED <<latevars, cfgvars, result, recipients, decimals, token_balance, nonce, succeeded, skipped, i,
                   sent_tx_hash, receipt, fee_fields, gas_limit, tx, logFile, baseLen, tracevars>>

\* lines 338-342: send_raw_transaction, sent_tx_hash = tx_hash.hex()
SendTx ==
    /\ pc = "send"
    /\ calls' = calls \cup {"send_raw_transaction"}
    /\ \E outcome \in {<<"ok", "hash">>, <<"raise", "Exception">>, <<"raise", "ContractLogicError">>} :
         IF Raised(outcome)
         THEN Handle(outcome[2]) /\ UNCHANGED <<sent_tx_hash, broadcasts>>
         ELSE /\ sent_tx_hash' = Some(HashOf(tx[1]))
              /\ broadcasts' = Append(broadcasts, Sent(actual_num, tx[1]))
              /\ pc' = "wait"
              /\ UNCHANGED <<status, error_msg, failed>>
    /\ UNCHANGED <<latevars, cfgvars, result, recipients, decimals, token_balance, nonce, succeeded, skipped, i,
                   receipt, fee_fields, gas_limit, tx, logFile, baseLen,
                   confirmations, attemptNonce, nonceUpdate>>

\* lines 344-360: wait for the receipt, then classify it
WaitReceipt ==
    /\ pc = "wait"
    /\ calls' = calls \cup {"wait_for_transaction_receipt"}
    /\ \E outcome \in {<<"raise", "TimeExhausted">>, <<"raise", "Exception">>}
                      \cup {<<"ok", r>> : r \in Receipts} :
         IF Raised(outcome)
         THEN Handle(outcome[2]) /\ UNCHANGED <<receipt, succeeded>>
         ELSE /\ receipt' = Some(outcome[2])
              /\ IF outcome[2].status = 1
                 THEN status' = "SUCCESS" /\ succeeded' = succeeded + 1 /\ failed' = failed
                 ELSE status' = "REVERTED" /\ failed' = failed + 1 /\ succeeded' = succeeded
              /\ pc' = "decode"
              /\ UNCHANGED error_msg
    /\ UNCHANGED <<latevars, cfgvars, result, recipients, decimals, token_balance, nonce, skipped, i,
                   sent_tx_hash, fee_fields, gas_limit, tx, logFile, baseLen, tracevars>>

\* a failed decode reaching the handlers of the attempt's try block
DecodeFailureHandled == Handle("Exception")

\* lines 369-370: except Exception: pass
DecodeFailure ==
    /\ pc' = "log"
    /\ UNCHANGED <<status, error_msg, failed>>

\* lines 362-370: best-effort decode of the Transfer event, failure swallowed
DecodeEvent ==
    /\ pc = "decode"
    /\ calls' = calls \cup {"process_receipt"}
    /\ \E ok \in BOOLEAN :
         IF ok THEN decoded' = "ok" /\ pc' = "log" /\ UNCHANGED <<status, error_msg, failed>>
         ELSE decoded' = "failed" /\ DecodeFailure
    /\ UNCHANGED <<flushed, typed, cfgvars, result, recipients, decimals, token_balance, nonce, succeeded, skipped, i,
                   sent_tx_hash, receipt, fee_fields, gas_limit, tx,
                   logFile, baseLen, tracevars>>

\* the row written and the loop continued, nonce handling and pause skipped
LogAttemptThenContinue ==
    /\ pc = "log"
    /\ logFile' = audit_log(logFile,
                    AuditRow(actual_num, to_addr, amt_human, amt_units, sent_tx_hash, status,
                             IF receipt # None THEN Some(receipt[1].blockNumber) ELSE None,
                             IF receipt # None THEN Some(receipt[1].gasUsed) ELSE None,
                             error_msg))
    /\ flushed' = Flush(logFile')
    /\ fee_fields' = None /\ gas_limit' = None /\ tx' = None
    /\ pc' = "loop"
    /\ UNCHANGED <<typed, decoded, cfgvars, result, recipients, decimals, token_balance, nonce, countvars, i,
                   status, sent_tx_hash, receipt, error_msg, baseLen, calls, tracevars>>

\* lines 388-399: the attempt's audit row
LogAttempt ==
    /\ pc = "log"
    /\ logFile' = audit_log(logFile,
                    AuditRow(actual_num, to_addr, amt_human, amt_units, sent_tx_hash, status,
                             IF receipt # None THEN Some(receipt[1].blockNumber) ELSE None,
                             IF receipt # None THEN Some(receipt[1].gasUsed) ELSE None,
                             error_msg))
    /\ flushed' = Flush(logFile')
    /\ fee_fields' = None /\ gas_limit' = None /\ tx' = None
    /\ pc' = "nonce"
    /\ UNCHANGED <<typed, decoded, cfgvars, result, recipients, decimals, token_balance, nonce, countvars, i,
                   status, sent_tx_hash, receipt, error_msg,
                   baseLen, calls, tracevars>>

\* the nonce advanced after every attempt, as before the resync was added
AdvanceAlways == TRUE

\* line 402: the condition under which the nonce is advanced locally
AdvanceLocally == sent_tx_hash # None /\ status \in {"SUCCESS", "REVERTED", "TIMEOUT"}

\* the local nonce left as it was after a broadcast
NotIncremented(n) == n

\* line 403: nonce += 1
Incremented(n) == n + 1

\* the pause taken only after a confirmed transfer
NeedsPauseOnSuccess == remaining_after > 0 /\ status = "SUCCESS"

\* line 419: the pause is taken whenever recipients remain
NeedsPause == remaining_after > 0

\* lines 401-421: nonce handling, then the pause when recipients remain
NonceHandling ==
    /\ pc = "nonce"
    /\ IF AdvanceLocally
       THEN /\ nonce' = Incremented(nonce)
            /\ nonceUpdate' = Append(nonceUpdate, <<"inc">>)
            /\ pc' = (IF NeedsPause THEN "checkpoint" ELSE "loop")
            /\ UNCHANGED <<calls, result>>
       ELSE /\ calls' = calls \cup {"get_transaction_count"}
            /\ \E reply \in Replies(0..MaxCount) :
                 IF Raised(reply)
                 THEN Uncaught /\ UNCHANGED <<nonce, nonceUpdate>>   \* __exit__ closes the file
                 ELSE /\ nonce' = reply[2]
                      /\ nonceUpdate' = Append(nonceUpdate, <<"query", reply[2]>>)
                      /\ pc' = (IF NeedsPause THEN "checkpoint" ELSE "loop")
                      /\ result' = result
    /\ flushed' = Flush(logFile)
    /\ UNCHANGED <<typed, decoded, cfgvars, recipients, decimals, token_balance, countvars, i, attemptvars,
                   logFile, baseLen, broadcasts, confirmations, attemptNonce>>

\* line 420: input("Press Enter to continue to next transfer...")
OperatorContinue ==
    /\ pc = "checkpoint"
    /\ confirmations' = confirmations + 1
    /\ pc' = "loop"
    /\ UNCHANGED <<latevars, cfgvars, result, recipients, decimals, token_balance, nonce, countvars, i, attemptvars,
                   logFile, baseLen, calls, broadcasts, attemptNonce, nonceUpdate>>

\* the exit status of the unpatched script, which did not track failures
ExitStatusAlwaysZero == "return 0"

\* line 434: return 0 if failed == 0 else 1
ExitStatus == IF failed = 0 THEN "return 0" ELSE "return 1"

\* lines 423-434: loop exhausted, summary, exit status
Finish ==
    /\ pc = "loop" /\ i = total
    /\ pc' = "exit"
    /\ result' = ExitStatus
    /\ flushed' = Flush(logFile)
    /\ UNCHANGED <<typed, decoded, cfgvars, recipients, decimals, token_balance, nonce, countvars, i, attemptvars,
                   logFile, baseLen, calls, tracevars>>

Next ==
    \/ CheckConfig
    \/ Connect
    \/ ReadDecimals
    \/ CheckBalance
    \/ ConfirmSend
    \/ ReadStartNonce
    \/ AuditEnter
    \/ DryRunAttempt
    \/ LiveBegin
    \/ PickFees
    \/ EstimateGas
    \/ BuildTx
    \/ SignTx
    \/ SendTx
    \/ WaitReceipt
    \/ DecodeEvent
    \/ LogAttempt
    \/ NonceHandling
    \/ OperatorContinue
    \/ Finish

Spec == Init /\ [][Next]_vars

\* ------------------------------------------- crashes and further runs ----
\* a process that is gone or has just been started: no local of main()
\* assigned, nothing recorded for the run
FreshProcess ==
    /\ recipients' = << >> /\ decimals' = Unbound /\ token_balance' = None /\ nonce' = Unbound
    /\ succeeded' = 0 /\ failed' = 0 /\ skipped' = 0 /\ i' = 0
    /\ status' = "PENDING" /\ sent_tx_hash' = None /\ receipt' = None /\ error_msg' = None
    /\ fee_fields' = None /\ gas_limit' = None /\ tx' = None
    /\ baseLen' = 0 /\ typed' = None /\ decoded' = "none"
    /\ calls' = {} /\ confirmations' = 0 /\ attemptNonce' = << >> /\ nonceUpdate' = << >>

\* what of LOG_FILE is on disk: the records written up to the last flush; open()
\* in append mode has created the file even when nothing was flushed
OnDisk == IF logFile = NoFile THEN NoFile ELSE SubSeq(logFile, 1, flushed)

\* the process ends without unwinding (SIGKILL, SIGTERM, power loss), so
\* AuditLogger.__exit__ does not run and the write buffer is lost; the
\* transactions already accepted by the node stay accepted
Kill ==
    /\ pc \notin {"exit", "killed"}
    /\ pc' = "killed"
    /\ result' = "killed"
    /\ logFile' = OnDisk
    /\ flushed' = (IF logFile = NoFile THEN 0 ELSE flushed)
    /\ FreshProcess
    /\ UNCHANGED <<cfgvars, broadcasts>>

\* the operator runs the script again, same configuration, same LOG_FILE
Restart ==
    /\ pc \in {"exit", "killed"}
    /\ run < MaxRuns
    /\ run' = run + 1
    /\ pc' = "start"
    /\ result' = "running"
    /\ FreshProcess
    /\ broadcasts' = << >>
    /\ UNCHANGED <<DRY_RUN, SKIP_FIRST_N, PRIVATE_KEY, RPC_URL, all_recipients, rpcUp, feevars,
                   logFile, flushed>>

NextCrash == Next \/ Kill

\* one run that may be killed at any point
SpecCrash == Init /\ [][NextCrash]_vars

\* runs that get as far as the transfer loop, over the two-line list, the first
\* of them finding no LOG_FILE
InitRuns ==
    /\ Init
    /\ PRIVATE_KEY = "valid" /\ RPC_URL = "url" /\ rpcUp
    /\ SKIP_FIRST_N = 0
    /\ all_recipients = << <<"A", 1>>, <<"B", 2>> >>
    /\ logFile = NoFile

NextRuns == Next \/ Kill \/ Restart

\* up to MaxRuns runs over the same LOG_FILE, each of which may be killed
SpecRuns == InitRuns /\ [][NextRuns]_vars

\* ------------------------------------------------ pick_fees on its own ----
FeeBases == {10, 11}            \* baseFeePerGas values of successive blocks
FeePrices == {5, 7}             \* w3.eth.gas_price values
ChainViews == { [base |-> b, price |-> g] :
                  b \in {NoBaseFee} \cup {Some(x) : x \in FeeBases}, g \in FeePrices }

InitFees ==
    /\ DRY_RUN = FALSE /\ SKIP_FIRST_N = 0 /\ PRIVATE_KEY = "valid" /\ RPC_URL = "url"
    /\ all_recipients = << >> /\ rpcUp = TRUE
    /\ pc = "pick_fees" /\ result = "running"
    /\ NotStarted
    /\ logFile = NoFile /\ flushed = 0 /\ run = 1
    /\ MAX_PRIORITY_FEE_GWEI \in {None, Some(2)}
    /\ MAX_FEE_MULTIPLIER \in {20, 15}
    /\ chain \in ChainViews
    /\ feePc = "call" /\ first_block = None /\ fresh = {chain} /\ feeOut = None

mainvars == <<DRY_RUN, SKIP_FIRST_N, PRIVATE_KEY, RPC_URL, all_recipients, rpcUp, pc, result,
              recipients, decimals, token_balance, nonce, succeeded, failed, skipped, i,
              status, sent_tx_hash, receipt, error_msg, fee_fields, gas_limit, tx,
              logFile, baseLen, calls, broadcasts, confirmations, attemptNonce, nonceUpdate,
              flushed, typed, decoded, run>>

\* lines 158-160, called at line 164: is_eip1559 reads the latest block
FeeIsEip1559 ==
    /\ feePc = "call"
    /\ first_block' = Some(chain.base)
    /\ feePc' = "second"
    /\ UNCHANGED <<mainvars, MAX_PRIORITY_FEE_GWEI, MAX_FEE_MULTIPLIER, chain, fresh, feeOut>>

\* lines 165-176: the latest block read again, or the gas price, and the result
FeeCompute ==
    /\ feePc = "second"
    /\ feeOut' = pick_fees(first_block[1], chain.base, chain.price)
    /\ feePc' = "returned"
    /\ UNCHANGED <<mainvars, MAX_PRIORITY_FEE_GWEI, MAX_FEE_MULTIPLIER, chain, first_block, fresh>>

\* the node moves on: another latest block, another suggested gas price; a
\* chain that exposes a base fee keeps exposing one
NewBlock ==
    /\ feePc \in {"call", "second", "returned"}
    /\ \E v \in ChainViews :
         /\ v # chain
         /\ is_eip1559(chain.base) => is_eip1559(v.base)
         /\ chain' = v
         /\ fresh' = IF feePc = "returned" THEN fresh ELSE fresh \cup {v}
    /\ UNCHANGED <<mainvars, MAX_PRIORITY_FEE_GWEI, MAX_FEE_MULTIPLIER, feePc, first_block, feeOut>>

\* line 306 of the next attempt: pick_fees invoked again
FeeCallAgain ==
    /\ feePc = "returned"
    /\ feePc' = "call"
    /\ first_block' = None
    /\ feeOut' = None
    /\ fresh' = {chain}
    /\ UNCHANGED <<mainvars, MAX_PRIORITY_FEE_GWEI, MAX_FEE_MULTIPLIER, chain>>

NextFees == FeeIsEip1559 \/ FeeCompute \/ NewBlock \/ FeeCallAgain

\* repeated invocations of pick_fees against a chain that moves on
SpecFees == InitFees /\ [][NextFees]_vars

\* ------------------------------------------------------- properties ----
Opened == baseLen > 0
\* the rows this run appended to LOG_FILE
runRows == [k \in 1..(Len(logFile) - baseLen) |-> logFile[baseLen + k][2]]
Started == Len(attemptNonce)
Settled == Len(nonceUpdate)
\* the nonce in force once attempt k's nonce handling has run (k <= Settled)
NonceAfter(k) == IF k < Started THEN attemptNonce[k + 1] ELSE nonce
AttemptPhases == {"fees", "gas", "build", "sign", "send", "wait", "decode", "log"}
InitialLogFiles == {NoFile, <<Hdr, Row(OldRow)>>}
Broadcast(k) == runRows[k].tx_hash # << >>

\* C1: in a live run every attempt whose broadcast returned a hash leaves the
\* nonce at its value before the attempt plus 1, whatever followed the
\* broadcast; so when all attempts so far were broadcast the nonce is the
\* starting nonce plus their number.
C1_NonceAdvancesAfterBroadcast ==
    (~DRY_RUN /\ Opened) =>
        /\ \A k \in 1..Settled : Broadcast(k) => NonceAfter(k) = attemptNonce[k] + 1
        /\ (Settled >= 1 /\ \A k \in 1..Settled : Broadcast(k))
              => nonce = attemptNonce[1] + Settled

\* C2: a live attempt that ended without a transaction hash never increments
\* the nonce locally: its nonce handling queried the pending transaction count
\* and the nonce in force afterwards, which the next attempt embeds in the
\* transaction it builds, is the value that query returned.
C2_NonceRequeriedAfterAbort ==
    (~DRY_RUN /\ Opened) =>
        /\ \A k \in 1..Settled : ~Broadcast(k) =>
              /\ nonceUpdate[k][1] = "query"
              /\ NonceAfter(k) = nonceUpdate[k][2]
        /\ (tx # None /\ i >= 2 /\ ~Broadcast(i - 1)) => tx[1].nonce = nonceUpdate[i - 1][2]

\* an aborted first attempt, the node answering with the same count as before
\* (so a local increment would differ), and the second attempt's transaction
\* built with that answer
C2_Witness ==
    /\ ~DRY_RUN /\ Opened /\ i = 2 /\ tx # None
    /\ ~Broadcast(1)
    /\ runRows[1].status = "ERROR"
    /\ nonceUpdate[1] = <<"query", attemptNonce[1]>>
    /\ tx[1].nonce = attemptNonce[1]

\* C3: every attempt, dry-run or live and whatever its outcome, appends
\* exactly one audit row, after its status became final: while attempt i is in
\* progress the run has appended i - 1 rows, afterwards i rows; row k carries
\* the number, address and amount of the k-th recipient, and no row has the
\* status PENDING.
C3_OneRowPerAttempt ==
    Opened =>
        /\ Len(runRows) = (IF pc \in AttemptPhases THEN i - 1 ELSE i)
        /\ i <= total
        /\ \A k \in 1..Len(runRows) :
              /\ runRows[k].transfer_num = k + SKIP_FIRST_N
              /\ runRows[k].to_address = recipients[k][1]
              /\ runRows[k].amount_human = recipients[k][2]
              /\ runRows[k].status # "PENDING"
        /\ (pc \in AttemptPhases \ {"log"}) => (status = "PENDING" \/ pc = "decode")

\* a live run between two attempts with two rows of different outcomes
C3_Witness ==
    /\ ~DRY_RUN /\ Opened /\ pc = "loop" /\ i = 2
    /\ Len(runRows) = 2
    /\ runRows[1].status = "ERROR"
    /\ runRows[2].status = "SUCCESS"

\* C4: with dry-run enabled no attempt invokes gas estimation, transaction
\* build, signing or broadcast; every recipient processed has its row, the
\* nonce advanced locally by 1 per recipient, and nothing was broadcast.
C4_DryRunNoWrites ==
    DRY_RUN =>
        /\ calls \cap {"estimate_gas", "build_transaction", "sign_transaction",
                       "send_raw_transaction"} = {}
        /\ broadcasts = << >>
        /\ Opened => /\ Len(runRows) = i
                     /\ Settled = i
                     /\ \A k \in 1..i : nonceUpdate[k] = <<"inc">>
                     /\ i >= 1 => nonce = attemptNonce[1] + i

\* a dry run that finished after two recipients
C4_Witness ==
    /\ DRY_RUN /\ pc = "exit" /\ result = "return 0" /\ i = 2 /\ Len(runRows) = 2

SpecStatuses == {"SIMULATED", "SUCCESS", "REVERTED", "TIMEOUT", "CONTRACT_ERROR", "ERROR"}
CodeStatuses == {"DRY_RUN", "SUCCESS", "REVERTED", "TIMEOUT", "CONTRACT_ERROR", "ERROR"}

\* C5 as claimed: every audit row's status is one of SIMULATED, SUCCESS,
\* REVERTED, TIMEOUT, CONTRACT_ERROR, ERROR, and every dry-run row is SIMULATED.
C5_StatusAsClaimed ==
    Opened => \A k \in 1..Len(runRows) :
                 /\ runRows[k].status \in SpecStatuses
                 /\ DRY_RUN => runRows[k].status = "SIMULATED"

\* C5 amended: every audit row's status is one of DRY_RUN, SUCCESS, REVERTED,
\* TIMEOUT, CONTRACT_ERROR, ERROR; every dry-run row is DRY_RUN, every live row
\* is one of the other five, and PENDING is never written.
C5_StatusAsWritten ==
    Opened => \A k \in 1..Len(runRows) :
                 /\ runRows[k].status \in CodeStatuses
                 /\ DRY_RUN <=> runRows[k].status = "DRY_RUN"

\* a live run that logged an attempt ended by a generic exception and one
\* ended by a contract-logic error
C5_Witness ==
    /\ ~DRY_RUN /\ Opened /\ Len(runRows) = 2
    /\ runRows[1].status = "ERROR"
    /\ runRows[2].status = "CONTRACT_ERROR"

LoopCompleted == Opened /\ pc = "exit" /\ result \in {"return 0", "return 1"}

\* C6 as claimed: a run that completed its loop reports failure exactly when
\* some attempt ended with a status other than SUCCESS or SIMULATED.
C6_ExitAsClaimed ==
    LoopCompleted =>
        (result = "return 1" <=>
            \E k \in 1..Len(runRows) : runRows[k].status \notin {"SUCCESS", "SIMULATED"})

\* C6 amended: a run that completed its loop reports failure exactly when some
\* attempt ended with a status other than SUCCESS or DRY_RUN (the status the
\* code writes for a simulated attempt); otherwise it returns 0.
C6_ExitMatchesStatuses ==
    LoopCompleted =>
        /\ Len(runRows) = total
        /\ (result = "return 1" <=>
               \E k \in 1..Len(runRows) : runRows[k].status \notin {"SUCCESS", "DRY_RUN"})
        /\ (result = "return 0" <=>
               \A k \in 1..Len(runRows) : runRows[k].status \in {"SUCCESS", "DRY_RUN"})

\* a completed live run of two transfers, one confirmed and one reverted,
\* reporting failure
C6_Witness ==
    /\ LoopCompleted /\ ~DRY_RUN /\ Len(runRows) = 2
    /\ runRows[1].status = "SUCCESS"
    /\ runRows[2].status = "REVERTED"
    /\ result = "return 1"

NoAttemptMade ==
    /\ i = 0 /\ Started = 0
    /\ nonce = Unbound
    /\ calls \cap {"get_transaction_count", "pick_fees", "estimate_gas", "build_transaction",
                   "sign_transaction", "send_raw_transaction"} = {}
    /\ broadcasts = << >>
    /\ baseLen = 0
    /\ logFile \in InitialLogFiles
    /\ result # "return 0"

Failed == pc = "exit" /\ result \in {"return 1", "exception"}

\* C7: a failed fatal precondition ends the run with a failure result before
\* any attempt.  Rejected or unusable credentials or endpoint setting, an
\* endpoint that does not answer, decimals other than 18 and a token balance
\* below the batch total each stop the run at the step that detects them, with
\* no fee query, signing or broadcast, the nonce never read and LOG_FILE left
\* exactly as it was (not created, no header, no row).
C7_FatalPreconditionAborts ==
    /\ (RPC_URL # "url" \/ PRIVATE_KEY \in {"empty", "marker"})
          => (NoAttemptMade /\ (pc # "start" => Failed))
    /\ ~rpcUp => (NoAttemptMade /\ (pc \notin {"start", "connect"} => Failed))
    /\ PRIVATE_KEY = "shipped_placeholder"
          => (NoAttemptMade /\ (pc \notin {"start", "connect"} => Failed))
    /\ (decimals # Unbound /\ decimals # EXPECTED_DECIMALS) => (NoAttemptMade /\ Failed)
    /\ (token_balance # None /\ BalanceBelow(token_balance[1], required_units))
          => (NoAttemptMade /\ Failed)

\* the token answered decimals() with 6 and the run is over
C7_Witness ==
    /\ decimals = 6 /\ pc = "exit" /\ result = "return 1"
    /\ Len(all_recipients) = 2 /\ logFile = NoFile

\* C8: once the loop has started no failure of the ledger client ends the
\* run: it ends by returning from main() after every recipient of the list was
\* attempted and logged, never by an exception.
C8_NoLedgerFailureEndsRun ==
    (Opened /\ pc = "exit") =>
        /\ result \in {"return 0", "return 1"}
        /\ Len(runRows) = total

\* C9: in a live run the operator has confirmed once for every attempt that
\* was followed by another recipient before the next attempt starts: while
\* attempt i is running, and until its checkpoint is answered, exactly i - 1
\* confirmations were given; the checkpoint is reached only with the row of
\* attempt i written and its nonce update applied, whatever its status.
C9_CheckpointBetweenAttempts ==
    (~DRY_RUN /\ Opened) =>
        /\ (pc \in AttemptPhases \cup {"nonce", "checkpoint"}) => confirmations = i - 1
        /\ pc = "checkpoint" => (Len(runRows) = i /\ Settled = i /\ i < total)
        /\ (pc = "loop" /\ i >= 1 /\ i < total) => (confirmations = i /\ Settled = i)
        /\ (pc = "loop" /\ i = total) => confirmations = (IF total = 0 THEN 0 ELSE total - 1)

\* the second attempt is under way after a first attempt that failed before
\* broadcast, one confirmation given
C9_Witness ==
    /\ ~DRY_RUN /\ Opened /\ i = 2 /\ pc = "send"
    /\ runRows[1].status = "ERROR" /\ ~Broadcast(1)
    /\ confirmations = 1

\* C10: at most one attempt is between its start and the end of its nonce
\* handling; while attempt i is being priced, built, signed, broadcast or
\* awaited, every earlier attempt has a row with a final status and an applied
\* nonce update, and every transaction broadcast so far belongs to an attempt
\* started no later than the current one, in attempt order.
C10_StrictlySequential ==
    Opened =>
        /\ Started = i
        /\ Started - Settled \in {0, 1}
        /\ Settled <= Len(runRows) /\ Len(runRows) <= Started
        /\ (pc \in AttemptPhases) =>
              /\ Settled = i - 1
              /\ Len(runRows) = i - 1
              /\ \A k \in 1..(i - 1) : runRows[k].status \in CodeStatuses
        /\ \A m \in 1..Len(broadcasts) :
              /\ broadcasts[m].transfer_num - SKIP_FIRST_N \in 1..i
              /\ broadcasts[m].nonce = attemptNonce[broadcasts[m].transfer_num - SKIP_FIRST_N]
              /\ \A n \in 1..(m - 1) : broadcasts[n].transfer_num < broadcasts[m].transfer_num

\* attempt 2 is waiting for its receipt after attempt 1 timed out
C10_Witness ==
    /\ ~DRY_RUN /\ Opened /\ i = 2 /\ pc = "wait"
    /\ Len(broadcasts) = 2
    /\ runRows[1].status = "TIMEOUT"
    /\ Settled = 1

CountRows(S) == Cardinality({k \in 1..Len(runRows) : runRows[k].status \in S})

\* C13: whenever no attempt is in progress, and so at the end of a completed
\* run, the succeeded counter is the number of SUCCESS rows, the failed counter
\* the number of REVERTED, TIMEOUT, CONTRACT_ERROR and ERROR rows, the simulated
\* counter the number of dry-run rows, and the three add up to the number of
\* recipients attempted, which for a completed run is the whole list.
C13_CountersMatchRows ==
    (Opened /\ pc \notin AttemptPhases) =>
        /\ succeeded = CountRows({"SUCCESS"})
        /\ failed = CountRows({"REVERTED", "TIMEOUT", "CONTRACT_ERROR", "ERROR"})
        /\ skipped = CountRows({"DRY_RUN"})
        /\ succeeded + failed + skipped = i
        /\ Len(runRows) = i
        /\ LoopCompleted => succeeded + failed + skipped = total

\* the three-recipient run whose second transfer reverts on chain
C13_Witness ==
    /\ LoopCompleted /\ ~DRY_RUN /\ total = 3
    /\ runRows[1].status = "SUCCESS"
    /\ runRows[2].status = "REVERTED"
    /\ runRows[3].status = "SUCCESS"
    /\ succeeded = 2 /\ failed = 1 /\ skipped = 0
    /\ result = "return 1"

\* gas limits that are an estimate plus 15%, to within the one unit that the
\* truncation of the floating-point product can lose
Buffered15 == UNION { {(e * 115) \div 100 - 1, (e * 115) \div 100} : e \in GasEstimates }

\* C15: the gas estimation step of a live attempt always hands over to the
\* transaction build, whether estimate_gas returned or raised (a contract-logic
\* revert included): it leaves the status PENDING, the failure counter, the
\* error message and the run's result untouched, and sets the gas limit to the
\* fallback 120000 or to a returned estimate plus 15%; the transaction then
\* built carries that gas limit.
C15_GasFailureFallsBack ==
    [][ /\ (pc = "gas") =>
              /\ pc' = "build"
              /\ status' = "PENDING" /\ failed' = failed /\ error_msg' = None
              /\ result' = "running"
              /\ gas_limit' \in {Some(FALLBACK_GAS)} \cup {Some(g) : g \in Buffered15}
        /\ (pc = "build" /\ pc' = "sign") => tx'[1].gas = gas_limit[1]
      ]_vars

\* a transfer broadcast with the fallback gas limit, its receipt awaited
C15_Witness ==
    /\ pc = "wait" /\ status = "PENDING" /\ sent_tx_hash # None
    /\ tx # None /\ tx[1].gas = FALLBACK_GAS
    /\ Len(broadcasts) = 1

\* the status lines 353-360 derive from a receipt
StatusOfReceipt(r) == IF r.status = 1 THEN "SUCCESS" ELSE "REVERTED"

\* C16: the decode of the Transfer event, failed or not, changes nothing the
\* attempt reports.  The decode step leaves status, counters, hash, receipt,
\* error message, nonce and log as they were and hands over to the row write;
\* and after a decode of either outcome the status is the one the receipt
\* gave, no error is recorded, the attempt's row holds the receipt's fields
\* with that status, and the nonce update is the local increment.
C16_DecodeFailureInvisible ==
    /\ [](decoded # "none" =>
            /\ receipt # None /\ sent_tx_hash # None /\ error_msg = None
            /\ status = StatusOfReceipt(receipt[1])
            /\ Len(runRows) = i =>
                  runRows[i] = AuditRow(actual_num, to_addr, amt_human, amt_units, sent_tx_hash,
                                        StatusOfReceipt(receipt[1]),
                                        Some(receipt[1].blockNumber), Some(receipt[1].gasUsed), None)
            /\ Settled = i => /\ nonceUpdate[i] = <<"inc">>
                              /\ nonce = attemptNonce[i] + 1)
    /\ [][(pc = "decode") =>
              /\ pc' = "log"
              /\ UNCHANGED <<status, succeeded, failed, skipped, sent_tx_hash, receipt, error_msg,
                             nonce, logFile, result>>]_vars

\* a confirmed transfer whose event decode failed: row SUCCESS, nonce advanced
C16_Witness ==
    /\ decoded = "failed" /\ pc = "loop" /\ Settled = i /\ i >= 1
    /\ runRows[i].status = "SUCCESS"
    /\ succeeded = 1 /\ failed = 0
    /\ nonceUpdate[i] = <<"inc">>

\* the records of LOG_FILE that are on disk, none when the file does not exist
Disk == IF logFile = NoFile THEN << >> ELSE SubSeq(logFile, 1, flushed)
HeaderAt(f) == {k \in 1..Len(f) : f[k][1] = "header"}

\* C12: over any sequence of runs on the same LOG_FILE the file only grows at
\* its end (every record on disk stays, in its position, whatever step is
\* taken, a re-open included), and a file that holds any record holds the
\* header exactly once, as its first record.
C12_AppendOnlyHeaderOnce ==
    /\ [](Len(Disk) > 0 => HeaderAt(Disk) = {1})
    /\ [][/\ Len(Disk') >= Len(Disk)
          /\ SubSeq(Disk', 1, Len(Disk)) = Disk]_vars

\* the data rows of a file, in order
IsDataRow(r) == r[1] = "row"
DataRows(f) == SelectSeq(f, IsDataRow)

\* C14: whenever the process is killed, what is left on disk holds every data
\* row that LOG_FILE held before the run and every row the run had written, in
\* the same order and unchanged; and the run had written a row for each
\* attempt but possibly the one in progress, so the disk holds, after the rows
\* from before the run, one row per completed attempt, each with the number,
\* address and amount of its recipient.
C14_CrashKeepsCompletedRows ==
    [][(pc' = "killed") =>
          /\ DataRows(logFile') = DataRows(logFile)
          /\ Opened =>
                LET done == IF pc \in AttemptPhases THEN i - 1 ELSE i
                    before == baseLen - 1
                    kept == DataRows(logFile')
                IN  /\ Len(kept) = before + done
                    /\ \A k \in 1..done :
                          /\ kept[before + k][2].transfer_num = k + SKIP_FIRST_N
                          /\ kept[before + k][2].to_address = recipients[k][1]
                          /\ kept[before + k][2].amount_human = recipients[k][2]
                          /\ kept[before + k][2].status \in CodeStatuses
      ]_vars

\* a live run killed after its second transfer was broadcast and before that
\* attempt's row was written: the first attempt's row is on disk
C14_Witness ==
    /\ pc = "killed" /\ ~DRY_RUN
    /\ Len(broadcasts) = 2
    /\ Len(DataRows(logFile)) = 1
    /\ logFile[1] = Hdr

\* C17: an invocation of pick_fees returns exactly one fee shape, computed
\* from what the node reported during that invocation.  When the latest block
\* carried a base fee, the result has the fields type, maxFeePerGas and
\* maxPriorityFeePerGas and no gasPrice; the priority fee is the configured
\* one, 1.5 gwei when none is configured, and maxFeePerGas is
\* floor(baseFee * multiplier) + priority fee for the base fee of a block
\* that was the latest during the invocation.  When it carried none, the
\* result has the single field gasPrice, equal to a gas price the node
\* suggested during the invocation.
C17_PickFeesShape ==
    (feePc = "returned") =>
        /\ feeOut[1] = "ok"
        /\ IF first_block[1] # NoBaseFee
           THEN LET prio == IF MAX_PRIORITY_FEE_GWEI = None THEN 1500000000
                            ELSE MAX_PRIORITY_FEE_GWEI[1] * 1000000000
                IN  /\ DOMAIN feeOut[2] = {"type", "maxFeePerGas", "maxPriorityFeePerGas"}
                    /\ feeOut[2].type = 2
                    /\ feeOut[2].maxPriorityFeePerGas = prio
                    /\ \E v \in fresh :
                          /\ v.base # NoBaseFee
                          /\ feeOut[2].maxFeePerGas = ((v.base[1] * MAX_FEE_MULTIPLIER) \div 10) + prio
           ELSE /\ DOMAIN feeOut[2] = {"gasPrice"}
                /\ \E v \in fresh : feeOut[2].gasPrice = v.price

\* multiplier 1.5 and the default priority fee: is_eip1559 saw base fee 10, a
\* new block with base fee 11 arrived before pick_fees read the block again,
\* and maxFeePerGas is floor(16.5) + 1.5 gwei
C17_Witness ==
    /\ feePc = "returned" /\ feeOut[1] = "ok"
    /\ MAX_FEE_MULTIPLIER = 15 /\ MAX_PRIORITY_FEE_GWEI = None
    /\ first_block = Some(Some(10))
    /\ feeOut[2].maxFeePerGas = 16 + 1500000000
    /\ feeOut[2].maxPriorityFeePerGas = 1500000000

\* C18: a run that entered the transfer loop attempts each recipient once
\* (the attempts started equal the loop index and never exceed the list, no
\* two broadcasts belong to the same recipient), every attempt that was
\* broadcast is logged with SUCCESS, REVERTED, TIMEOUT or an error status, and
\* the run ends only at its summary, with one attempt made per recipient.
C18_RunReachesSummary ==
    Opened =>
        /\ Started = i /\ i <= total
        /\ \A m \in 1..Len(broadcasts) : \A n \in 1..(m - 1) :
              broadcasts[n].transfer_num # broadcasts[m].transfer_num
        /\ \A k \in 1..Len(runRows) :
              Broadcast(k) => runRows[k].status \in {"SUCCESS", "REVERTED", "TIMEOUT",
                                                     "CONTRACT_ERROR", "ERROR"}
        /\ (pc = "exit") =>
              /\ result \in {"return 0", "return 1"}
              /\ Started = total /\ Settled = total

\* the attempt (loop index) that broadcast m belongs to
AttemptOf(m) == broadcasts[m].transfer_num - SKIP_FIRST_N

\* every pending count the node returned to a re-query made so far exceeds
\* every nonce the run had broadcast by then
QueriesAhead ==
    \A k \in 1..Settled :
        nonceUpdate[k][1] = "query" =>
            \A m \in 1..Len(broadcasts) :
                AttemptOf(m) <= k => nonceUpdate[k][2] > broadcasts[m].nonce

\* C19 as claimed: within one live run the nonces of the transactions
\* broadcast are strictly increasing in attempt order, whatever the node
\* answers to the nonce re-queries.
C19_NoncesIncreaseAsClaimed ==
    ~DRY_RUN =>
        \A m \in 1..Len(broadcasts) : \A n \in 1..(m - 1) :
            /\ AttemptOf(n) < AttemptOf(m)
            /\ broadcasts[n].nonce < broadcasts[m].nonce

\* C19 amended: within one live run, as long as every pending count returned
\* to a re-query exceeds every nonce the run had broadcast before it, the
\* nonces of the transactions broadcast are strictly increasing in attempt
\* order, so no two of them carry the same nonce.
C19_NoncesIncreaseWhenQueriesAhead ==
    (~DRY_RUN /\ QueriesAhead) =>
        \A m \in 1..Len(broadcasts) : \A n \in 1..(m - 1) :
            /\ AttemptOf(n) < AttemptOf(m)
            /\ broadcasts[n].nonce < broadcasts[m].nonce

\* three recipients: the first broadcast and confirmed, the second aborted
\* before broadcast and followed by a re-query, the third broadcast with the
\* count that re-query returned
C19_Witness ==
    /\ ~DRY_RUN /\ QueriesAhead /\ Opened
    /\ Len(broadcasts) = 2 /\ Settled >= 2
    /\ AttemptOf(1) = 1 /\ AttemptOf(2) = 3
    /\ runRows[1].status = "SUCCESS"
    /\ ~Broadcast(2)
    /\ nonceUpdate[2][1] = "query"
    /\ broadcasts[2].nonce = nonceUpdate[2][2]
    /\ broadcasts[1].nonce < broadcasts[2].nonce

\* steps of a live run that come after the start-of-run prompt
AfterPrompt == {"read_nonce", "open", "loop", "checkpoint", "nonce"} \cup AttemptPhases
Signing == calls \cap {"sign_transaction", "send_raw_transaction"} # {}

\* C20 as claimed: in live mode nothing is signed or broadcast unless the
\* operator typed exactly SEND at the start-of-run prompt.
C20_ExactlySendAsClaimed ==
    (~DRY_RUN /\ (Signing \/ broadcasts # << >>)) => typed = Some(<<"SEND">>)

\* C20 amended: in live mode nothing is signed or broadcast, and no step after
\* the prompt is taken, unless the operator's answer, leading and trailing
\* whitespace removed, was SEND; any other answer ends the run at once with
\* `return 1`, the nonce not read, no attempt made and LOG_FILE as it was
\* (absent if it was absent); in dry-run mode the prompt is never asked.
C20_SendAfterStrip ==
    /\ (~DRY_RUN /\ (Signing \/ broadcasts # << >> \/ pc \in AfterPrompt \/ Opened)) =>
          (typed # None /\ Strip(typed[1]) = <<"SEND">>)
    /\ (typed # None /\ Strip(typed[1]) # <<"SEND">>) =>
          /\ pc = "exit" /\ result = "return 1"
          /\ "get_transaction_count" \notin calls /\ nonce = Unbound
          /\ i = 0 /\ Started = 0 /\ broadcasts = << >> /\ ~Signing
          /\ ~Opened /\ logFile \in InitialLogFiles /\ flushed = (IF logFile = NoFile THEN 0 ELSE Len(logFile))
    /\ DRY_RUN => typed = None

\* a live run that broadcast a transfer after the operator typed SEND with
\* blanks around it
C20_Witness ==
    /\ ~DRY_RUN /\ typed = Some(<<" ", "SEND", " ">>)
    /\ broadcasts # << >> /\ Signing

=============================================================================
